---------------------------- MODULE Spec2Model ----------------------------
(***************************************************************************)
(* Model of the minigrep line-search tool                                  *)
(* (Rust/example-projects/minigrep/src/lib.rs and main.rs).                *)
(*                                                                         *)
(* A string is a sequence of characters; a character is a one-element name *)
(* ("a", "A", "\n", ...).  The three Greek sigmas are written "SIGMA"      *)
(* (U+03A3), "sigma" (U+03C3) and "fsigma" (U+03C2, final sigma).  The     *)
(* literal pieces of a formatted message are kept as single multi-letter   *)
(* elements, so a message is again a sequence.                             *)
(*                                                                         *)
(* Two specifications are given.  Spec is one execution of the program:    *)
(* main builds the Config from the arguments and the environment, run      *)
(* reads the file, searches and prints.  SearchSpec applies the two pure   *)
(* search functions to a bounded set of queries and contents.              *)
(* Writes to the standard output are taken to succeed.                     *)
(***************************************************************************)
EXTENDS Integers, Sequences, FiniteSets

VARIABLES
    pc,          \* position of main: "start", "run", "search", "print", "exit"
    args,        \* env::args(): the argument tokens, program name first
    env,         \* state of the environment variable IGNORE_CASE
    build_res,   \* the Result returned by Config::build
    run_state,   \* "not_called", "called", "ok", "err": the call of run
    contents,    \* run's local `contents`
    results,     \* run's local `results`
    next_line,   \* position of the `for line in results` loop
    stdout,      \* what was written to the standard output, in order
    stderr,      \* what was written to the standard error, in order
    exit_code,   \* process exit status, NoExit while running
    h_query,     \* SearchSpec: the query under test
    h_contents,  \* SearchSpec: the contents under test
    h_done_cs,   \* SearchSpec: search was applied
    h_res_cs,    \* SearchSpec: its return value
    h_done_ci,   \* SearchSpec: search_case_insensitive was applied
    h_res_ci     \* SearchSpec: its return value

prog_vars == <<pc, args, env, build_res, run_state, contents, results,
               next_line, stdout, stderr, exit_code>>
h_vars == <<h_query, h_contents, h_done_cs, h_res_cs, h_done_ci, h_res_ci>>
vars == <<pc, args, env, build_res, run_state, contents, results,
          next_line, stdout, stderr, exit_code,
          h_query, h_contents, h_done_cs, h_res_cs, h_done_ci, h_res_ci>>

-----------------------------------------------------------------------------
(* Bounds *)

\* longest argument list (program name included)
MaxArgs == 4
\* longest file content read by run, in characters
MaxFileLen == 2
\* longest query handed to the search functions in SearchSpec
MaxQueryLen == 2
\* longest contents handed to the search functions in SearchSpec
MaxContentLen == 3

NoExit == -1

\* all strings over the alphabet `cs` of length at most n
StringsUpTo(cs, n) == UNION {[1..k -> cs] : k \in 0..n}

\* characters a file content is made of
ContentChars == {"a", "A", "SIGMA", "sigma", ".", "\r", "\n"}
\* characters a query is made of
QueryChars == {"a", "A", "SIGMA", "sigma"}
\* argument tokens: the empty string and two one-character strings
ArgTokens == {<<>>, <<"a">>, <<"SIGMA">>}

-----------------------------------------------------------------------------
(* Strings: str::contains, str::lines, str::to_lowercase *)

\* str::contains with a &str pattern: needle is a contiguous substring of hay
Contains(hay, needle) ==
    \E i \in 0..(Len(hay) - Len(needle)) :
        SubSeq(hay, i + 1, i + Len(needle)) = needle

\* index of the first "\n" of s, 0 if there is none
FirstNewline(s) ==
    IF \E i \in 1..Len(s) : s[i] = "\n"
    THEN CHOOSE i \in 1..Len(s) : s[i] = "\n" /\ \A j \in 1..(i - 1) : s[j] # "\n"
    ELSE 0

\* str::split_inclusive('\n'): pieces that keep their terminator; the empty
\* piece after a final terminator is not produced
RECURSIVE SplitInclusive(_)
SplitInclusive(s) ==
    IF s = <<>> THEN <<>>
    ELSE LET n == FirstNewline(s)
         IN IF n = 0 THEN <<s>>
            ELSE <<SubSeq(s, 1, n)>> \o SplitInclusive(SubSeq(s, n + 1, Len(s)))

\* the closure of str::lines: strip "\n", then a "\r" that preceded it; a piece
\* without "\n" (the last one) is returned as it is
StripLineEnding(piece) ==
    IF piece # <<>> /\ piece[Len(piece)] = "\n"
    THEN LET l == SubSeq(piece, 1, Len(piece) - 1)
         IN IF l # <<>> /\ l[Len(l)] = "\r" THEN SubSeq(l, 1, Len(l) - 1) ELSE l
    ELSE piece

\* str::lines
Lines(s) ==
    LET pieces == SplitInclusive(s)
    IN [i \in 1..Len(pieces) |-> StripLineEnding(pieces[i])]

\* Unicode property Cased, on the modelled characters
Cased(c) == c \in {"a", "A", "SIGMA", "sigma", "fsigma"}
\* Unicode property Case_Ignorable, on the modelled characters
CaseIgnorable(c) == c \in {"."}

\* char::to_lowercase for every character but capital sigma
ToLower(c) ==
    CASE c = "A" -> "a"
      [] OTHER -> c

\* case_ignorable_then_cased over s[i+1..]: skip the case-ignorable characters,
\* then tell whether the next one is cased
RECURSIVE CasedAfter(_, _)
CasedAfter(s, i) ==
    IF i >= Len(s) THEN FALSE
    ELSE IF CaseIgnorable(s[i + 1]) THEN CasedAfter(s, i + 1)
    ELSE Cased(s[i + 1])

\* case_ignorable_then_cased over s[..i-1] reversed
RECURSIVE CasedBefore(_, _)
CasedBefore(s, i) ==
    IF i <= 1 THEN FALSE
    ELSE IF CaseIgnorable(s[i - 1]) THEN CasedBefore(s, i - 1)
    ELSE Cased(s[i - 1])

\* str::to_lowercase: capital sigma becomes final sigma at the end of a word
\* (Final_Sigma) and small sigma elsewhere; every other character is mapped
\* on its own
ToLowercase(s) ==
    [i \in 1..Len(s) |->
        IF s[i] = "SIGMA"
        THEN IF CasedBefore(s, i) /\ ~CasedAfter(s, i) THEN "fsigma" ELSE "sigma"
        ELSE ToLower(s[i])]

-----------------------------------------------------------------------------
(* lib.rs: search, search_case_insensitive *)

\* a search that keeps the lines that START with the query
search_prefix(query, text) ==
    SelectSeq(Lines(text),
              LAMBDA line : Len(query) <= Len(line)
                            /\ SubSeq(line, 1, Len(query)) = query)

search(query, text) ==
    SelectSeq(Lines(text), LAMBDA line : Contains(line, query))

\* a case-insensitive search that forgets to lower-case the query
search_case_insensitive_rawquery(query, text) ==
    SelectSeq(Lines(text), LAMBDA line : Contains(ToLowercase(line), query))

search_case_insensitive(query, text) ==
    LET lquery == ToLowercase(query)
    IN SelectSeq(Lines(text), LAMBDA line : Contains(ToLowercase(line), lquery))

-----------------------------------------------------------------------------
(* lib.rs: Config::build *)

\* states of IGNORE_CASE in the environment: unset, set to "", set to "1",
\* set to bytes that are not valid Unicode
EnvStates ==
    { [present |-> FALSE, unicode |-> TRUE,  value |-> <<>>],
      [present |-> TRUE,  unicode |-> TRUE,  value |-> <<>>],
      [present |-> TRUE,  unicode |-> TRUE,  value |-> <<"1">>],
      [present |-> TRUE,  unicode |-> FALSE, value |-> <<"xFF">>] }

\* env::var(..).is_ok(): Err(NotPresent) when unset, Err(NotUnicode) when the
\* value is not valid Unicode, Ok(value) otherwise
EnvVarIsOk(e) == e.present /\ e.unicode

NoConfig == [query |-> <<>>, file_path |-> <<>>, ignore_case |-> FALSE]
Ok(c) == [ok |-> TRUE, config |-> c, err |-> <<>>]
Err(m) == [ok |-> FALSE, config |-> NoConfig, err |-> m]

\* the format! of usage_message
UsageMessage(program_name) ==
    <<"Usage: ">> \o program_name
        \o <<" ", "<query>", " ", "<file_path>", "\n",
             "Set environment variable IGNORE_CASE=1 to do case insesitive searching">>

\* a build that accepts a missing file path and leaves it empty
ConfigBuild_no_path_check(a, e) ==
    IF Len(a) < 1 THEN Err(<<"unable to find name of program...">>)
    ELSE IF Len(a) < 2
    THEN Err(<<"query argument not found", "\n">> \o UsageMessage(a[1]))
    ELSE Ok([query |-> a[2],
             file_path |-> IF Len(a) < 3 THEN <<>> ELSE a[3],
             ignore_case |-> EnvVarIsOk(e)])

\* a build that takes the file path first and the query second
ConfigBuild_swapped(a, e) ==
    IF Len(a) < 1 THEN Err(<<"unable to find name of program...">>)
    ELSE IF Len(a) < 2
    THEN Err(<<"query argument not found", "\n">> \o UsageMessage(a[1]))
    ELSE IF Len(a) < 3
    THEN Err(<<"file path argument not found", "\n">> \o UsageMessage(a[1]))
    ELSE Ok([query |-> a[3], file_path |-> a[2], ignore_case |-> EnvVarIsOk(e)])

\* a build whose missing-file-path error leaves the usage message out
ConfigBuild_no_usage(a, e) ==
    IF Len(a) < 1 THEN Err(<<"unable to find name of program...">>)
    ELSE IF Len(a) < 2
    THEN Err(<<"query argument not found", "\n">> \o UsageMessage(a[1]))
    ELSE IF Len(a) < 3
    THEN Err(<<"file path argument not found">>)
    ELSE Ok([query |-> a[2], file_path |-> a[3], ignore_case |-> EnvVarIsOk(e)])

ConfigBuild(a, e) ==
    IF Len(a) < 1 THEN Err(<<"unable to find name of program...">>)
    ELSE IF Len(a) < 2
    THEN Err(<<"query argument not found", "\n">> \o UsageMessage(a[1]))
    ELSE IF Len(a) < 3
    THEN Err(<<"file path argument not found", "\n">> \o UsageMessage(a[1]))
    ELSE Ok([query |-> a[2], file_path |-> a[3], ignore_case |-> EnvVarIsOk(e)])

-----------------------------------------------------------------------------
(* lib.rs: run, main.rs: main *)

\* what fs::read_to_string can return for a path: the empty path never names
\* a file; any other path may be missing, unreadable, not text, or text
ReadErrors ==
    { <<"No such file or directory (os error 2)">>,
      <<"Permission denied (os error 13)">>,
      <<"stream did not contain valid UTF-8">> }

ReadOutcomes(path) ==
    {[ok |-> FALSE, text |-> <<>>, err |-> m] : m \in
        IF path = <<>> THEN {<<"No such file or directory (os error 2)">>}
        ELSE ReadErrors}
    \cup (IF path = <<>> THEN {}
          ELSE {[ok |-> TRUE, text |-> t, err |-> <<>>] :
                    t \in StringsUpTo(ContentChars, MaxFileLen)})

\* one println!: `site` names the statement that wrote the text
Written(site, text) == [site |-> site, text |-> text]

Init ==
    /\ pc = "start"
    /\ args \in StringsUpTo(ArgTokens, MaxArgs)
    /\ env \in EnvStates
    /\ build_res = Err(<<>>)
    /\ run_state = "not_called"
    /\ contents = <<>>
    /\ results = <<>>
    /\ next_line = 1
    /\ stdout = <<>>
    /\ stderr = <<>>
    /\ exit_code = NoExit
    /\ h_query = <<>>
    /\ h_contents = <<>>
    /\ h_done_cs = FALSE
    /\ h_res_cs = <<>>
    /\ h_done_ci = FALSE
    /\ h_res_ci = <<>>

\* main: Config::build returned Ok; run(config) is called
MainBuildOk ==
    /\ pc = "start"
    /\ ConfigBuild(args, env).ok
    /\ build_res' = ConfigBuild(args, env)
    /\ run_state' = "called"
    /\ pc' = "run"
    /\ UNCHANGED <<args, env, contents, results, next_line, stdout, stderr,
                   exit_code>>
    /\ UNCHANGED h_vars

\* main: Config::build returned Err; the closure prints it and exits with 1
MainBuildErr ==
    /\ pc = "start"
    /\ ~ConfigBuild(args, env).ok
    /\ build_res' = ConfigBuild(args, env)
    /\ stdout' = Append(stdout, Written("main_build_err", ConfigBuild(args, env).err))
    /\ exit_code' = 1
    /\ pc' = "exit"
    /\ UNCHANGED <<args, env, run_state, contents, results, next_line, stderr>>
    /\ UNCHANGED h_vars

\* run: fs::read_to_string(config.file_path) returned Ok
RunReadOk ==
    /\ pc = "run"
    /\ \E r \in ReadOutcomes(build_res.config.file_path) :
          /\ r.ok
          /\ contents' = r.text
    /\ pc' = "search"
    /\ UNCHANGED <<args, env, build_res, run_state, results, next_line, stdout,
                   stderr, exit_code>>
    /\ UNCHANGED h_vars

\* a main that prints the error of run and still exits with 0
RunReadErr_swallowed ==
    /\ pc = "run"
    /\ \E r \in ReadOutcomes(build_res.config.file_path) :
          /\ ~r.ok
          /\ stdout' = Append(stdout,
                 Written("main_run_err", <<"Application error: ">> \o r.err))
    /\ run_state' = "err"
    /\ exit_code' = 0
    /\ pc' = "exit"
    /\ UNCHANGED <<args, env, build_res, contents, results, next_line, stderr>>
    /\ UNCHANGED h_vars

\* run: fs::read_to_string failed, `?` returns the error; main prints
\* "Application error: {e}" and exits with 1
RunReadErr ==
    /\ pc = "run"
    /\ \E r \in ReadOutcomes(build_res.config.file_path) :
          /\ ~r.ok
          /\ stdout' = Append(stdout,
                 Written("main_run_err", <<"Application error: ">> \o r.err))
    /\ run_state' = "err"
    /\ exit_code' = 1
    /\ pc' = "exit"
    /\ UNCHANGED <<args, env, build_res, contents, results, next_line, stderr>>
    /\ UNCHANGED h_vars

\* run: the search chosen by config.ignore_case
RunSearch ==
    /\ pc = "search"
    /\ results' = IF build_res.config.ignore_case
                  THEN search_case_insensitive(build_res.config.query, contents)
                  ELSE search(build_res.config.query, contents)
    /\ next_line' = 1
    /\ pc' = "print"
    /\ UNCHANGED <<args, env, build_res, run_state, contents, stdout, stderr,
                   exit_code>>
    /\ UNCHANGED h_vars

\* run: one iteration of `for line in results { println!("{line}") }`
RunPrintLine ==
    /\ pc = "print"
    /\ next_line <= Len(results)
    /\ stdout' = Append(stdout, Written("run_line", results[next_line]))
    /\ next_line' = next_line + 1
    /\ UNCHANGED <<pc, args, env, build_res, run_state, contents, results,
                   stderr, exit_code>>
    /\ UNCHANGED h_vars

\* a run that, like grep, ends with status 1 when nothing was found
RunReturnOk_status_by_matches ==
    /\ pc = "print"
    /\ next_line > Len(results)
    /\ run_state' = "ok"
    /\ exit_code' = IF results = <<>> THEN 1 ELSE 0
    /\ pc' = "exit"
    /\ UNCHANGED <<args, env, build_res, contents, results, next_line, stdout,
                   stderr>>
    /\ UNCHANGED h_vars

\* run returns Ok(()) whatever was found, and main returns: exit status 0
RunReturnOk ==
    /\ pc = "print"
    /\ next_line > Len(results)
    /\ run_state' = "ok"
    /\ exit_code' = 0
    /\ pc' = "exit"
    /\ UNCHANGED <<args, env, build_res, contents, results, next_line, stdout,
                   stderr>>
    /\ UNCHANGED h_vars

Next ==
    \/ MainBuildOk
    \/ MainBuildErr
    \/ RunReadOk
    \/ RunReadErr
    \/ RunSearch
    \/ RunPrintLine
    \/ RunReturnOk

Spec == Init /\ [][Next]_vars

-----------------------------------------------------------------------------
(* The search functions on their own *)

SearchInit ==
    /\ pc = "fn"
    /\ args = <<>>
    /\ env = [present |-> FALSE, unicode |-> TRUE, value |-> <<>>]
    /\ build_res = Err(<<>>)
    /\ run_state = "not_called"
    /\ contents = <<>>
    /\ results = <<>>
    /\ next_line = 1
    /\ stdout = <<>>
    /\ stderr = <<>>
    /\ exit_code = NoExit
    /\ h_query \in StringsUpTo(QueryChars, MaxQueryLen)
    /\ h_contents \in StringsUpTo(ContentChars, MaxContentLen)
    /\ h_done_cs = FALSE
    /\ h_res_cs = <<>>
    /\ h_done_ci = FALSE
    /\ h_res_ci = <<>>

CallSearch ==
    /\ pc = "fn"
    /\ ~h_done_cs
    /\ h_res_cs' = search(h_query, h_contents)
    /\ h_done_cs' = TRUE
    /\ UNCHANGED <<h_query, h_contents, h_done_ci, h_res_ci>>
    /\ UNCHANGED prog_vars

CallSearchCaseInsensitive ==
    /\ pc = "fn"
    /\ ~h_done_ci
    /\ h_res_ci' = search_case_insensitive(h_query, h_contents)
    /\ h_done_ci' = TRUE
    /\ UNCHANGED <<h_query, h_contents, h_done_cs, h_res_cs>>
    /\ UNCHANGED prog_vars

SearchNext ==
    \/ CallSearch
    \/ CallSearchCaseInsensitive

SearchSpec == SearchInit /\ [][SearchNext]_vars

-----------------------------------------------------------------------------
(* Properties *)

\* tokens after the program-identifying first token
PayloadCount(a) == IF Len(a) = 0 THEN 0 ELSE Len(a) - 1

\* the texts written to `stream` by the statement `site`
WrittenBy(stream, site) ==
    {i \in 1..Len(stream) : stream[i].site = site}

\* the k-th smallest element of the set of indices idx
KthIndex(idx, k) ==
    CHOOSE i \in idx : Cardinality({j \in idx : j <= i}) = k

\* res is the lines of ls at the indices idx, each once, in increasing order
IsTheLinesAt(res, ls, idx) ==
    /\ Len(res) = Cardinality(idx)
    /\ \A k \in 1..Len(res) : res[k] = ls[KthIndex(idx, k)]

\* the match predicate of a request on one line
LineMatches(cfg, line) ==
    IF cfg.ignore_case
    THEN Contains(ToLowercase(line), ToLowercase(cfg.query))
    ELSE Contains(line, cfg.query)

\* the message names the program (when there is one) and both arguments
CarriesUsage(msg, a) ==
    /\ Contains(msg, <<"<query>">>)
    /\ Contains(msg, <<"<file_path>">>)
    /\ Len(a) >= 1 => Contains(msg, <<"Usage: ">> \o a[1])

C2_ConfigNonEmpty ==
    (pc # "start" /\ build_res.ok)
        => (build_res.config.query # <<>> /\ build_res.config.file_path # <<>>)

\* C2 (amended): every Config returned as Ok holds the first payload token as
\* its query and the second as its file_path, whatever they are (empty
\* included), and from its construction on the Config never changes.
C2_ConfigIsTheTokens ==
    /\ [](  (pc # "start" /\ build_res.ok)
            => /\ Len(args) >= 3
               /\ build_res.config.query = args[2]
               /\ build_res.config.file_path = args[3])
    /\ [][pc # "start" => build_res' = build_res]_vars

C2_Witness ==
    /\ pc = "exit"
    /\ build_res.ok
    /\ build_res.config.query = <<>>
    /\ build_res.config.file_path # <<>>
    /\ run_state = "ok"

\* C3: search returns exactly the lines of the contents that contain the query
\* as a contiguous case-exact substring, each once, in their original order,
\* and nothing else; a returned line holds no line terminator.
C3_SearchIsExactFilter ==
    h_done_cs =>
        LET ls == Lines(h_contents)
        IN /\ IsTheLinesAt(h_res_cs, ls,
                           {i \in 1..Len(ls) : Contains(ls[i], h_query)})
           /\ \A k \in 1..Len(h_res_cs) : ~Contains(h_res_cs[k], <<"\n">>)

C3_Witness ==
    /\ h_done_cs
    /\ Len(h_query) = 2
    /\ Len(Lines(h_contents)) = 2
    /\ ~Contains(Lines(h_contents)[1], h_query)
    /\ h_res_cs = <<Lines(h_contents)[2]>>

\* C4: every line returned by search is also returned by
\* search_case_insensitive for the same query and contents.
C4_InsensitiveIsSuperset ==
    (h_done_cs /\ h_done_ci)
        => \A i \in 1..Len(h_res_cs) :
              \E j \in 1..Len(h_res_ci) : h_res_ci[j] = h_res_cs[i]

\* C5: the Config's ignore_case is true if and only if IGNORE_CASE is present
\* in the environment, whatever its value.
C5_IgnoreCaseIffPresent ==
    (pc # "start" /\ build_res.ok)
        => (build_res.config.ignore_case <=> env.present)

\* C6: search_case_insensitive returns, in original order, exactly the lines
\* whose lower-cased form contains the lower-cased query, and each returned
\* line is the original line, not its lower-cased copy.
C6_InsensitiveIsExactFilter ==
    h_done_ci =>
        LET ls == Lines(h_contents)
            lq == ToLowercase(h_query)
        IN IsTheLinesAt(h_res_ci, ls,
                        {i \in 1..Len(ls) : Contains(ToLowercase(ls[i]), lq)})

C6_Witness ==
    /\ h_done_ci
    /\ h_query # <<>>
    /\ h_query # ToLowercase(h_query)
    /\ Len(h_res_ci) >= 1
    /\ Len(h_res_ci) < Len(Lines(h_contents))
    /\ \E k \in 1..Len(h_res_ci) :
          /\ h_res_ci[k] # ToLowercase(h_res_ci[k])
          /\ ~Contains(h_res_ci[k], h_query)

\* C7: an execution that ends in a failure (Config::build or the file read
\* failed) has printed no matching line, has printed a non-empty message and
\* ends with status 1; matching lines are printed only after the read has
\* completed; status 0 is reached only without a failure.
C7_NoOutputOnFailure ==
    /\ (pc = "exit" /\ (~build_res.ok \/ run_state = "err"))
          => /\ WrittenBy(stdout, "run_line") = {}
             /\ exit_code = 1
             /\ \E i \in 1..Len(stdout \o stderr) :
                   /\ (stdout \o stderr)[i].site \in {"main_build_err", "main_run_err"}
                   /\ (stdout \o stderr)[i].text # <<>>
    /\ (WrittenBy(stdout, "run_line") # {} \/ results # <<>>)
          => (pc \in {"print", "exit"} /\ run_state \in {"called", "ok"})
    /\ exit_code = 0 => (build_res.ok /\ run_state = "ok")

C7_Witness ==
    /\ pc = "exit"
    /\ build_res.ok
    /\ run_state = "err"
    /\ exit_code = 1

\* C8: on a configuration error and on an I/O error the program writes the
\* message to the standard error and nothing to the standard output before
\* it exits with status 1.
C8_ErrorsGoToStderr ==
    (pc = "exit" /\ exit_code = 1)
        => (stdout = <<>> /\ stderr # <<>>)

\* C9 (as stated): whenever Config::build fails on the argument count (no
\* token, only the program token, or one payload token) the error carries a
\* usage message naming the program and both positional arguments.
C9_EveryErrorCarriesUsage ==
    (pc # "start" /\ ~build_res.ok) => CarriesUsage(build_res.err, args)

\* C9 (amended): when the program token is present (one or two tokens in all)
\* the error carries the usage message naming the program and both positional
\* arguments; with no token at all the error is "unable to find name of
\* program..." and carries no usage message.
C9_ErrorCarriesUsageGivenProgram ==
    /\ (pc # "start" /\ ~build_res.ok /\ Len(args) >= 1)
          => /\ CarriesUsage(build_res.err, args)
             /\ Contains(build_res.err, UsageMessage(args[1]))
    /\ (pc # "start" /\ Len(args) = 0)
          => /\ ~build_res.ok
             /\ build_res.err = <<"unable to find name of program...">>
             /\ ~CarriesUsage(build_res.err, args)

C9_Witness ==
    /\ pc = "exit"
    /\ Len(args) = 2
    /\ args[1] # <<>>
    /\ ~build_res.ok
    /\ CarriesUsage(build_res.err, args)

\* C10: with a valid configuration and a readable file, the program ends with
\* status 0 and run returns Ok whether or not a line matched; when no line of
\* the file matches the request, the result is empty and nothing is printed.
C10_EmptyResultIsSuccess ==
    (pc = "exit" /\ build_res.ok /\ run_state # "err")
        => /\ exit_code = 0
           /\ run_state = "ok"
           /\ (\A i \in 1..Len(Lines(contents)) :
                   ~LineMatches(build_res.config, Lines(contents)[i]))
                 => (results = <<>> /\ stdout = <<>> /\ stderr = <<>>)

C10_Witness ==
    /\ pc = "exit"
    /\ run_state = "ok"
    /\ exit_code = 0
    /\ build_res.config.query # <<>>
    /\ Len(Lines(contents)) >= 1
    /\ results = <<>>
    /\ stdout = <<>>

=============================================================================
